---- MODULE Spec2Model ----
(***************************************************************************)
(* Model of the font cache of src/singletons/Fonts.cpp: the per-style      *)
(* cache fontsByType_, the three watched settings, their change handlers   *)
(* (clear every bucket, broadcast fontChanged), the shared lookup/create   *)
(* routine getOrCreateFontData and the resolution rules of createFontData  *)
(* with the single-precision arithmetic and the int() conversions of the   *)
(* source.                                                                 *)
(***************************************************************************)
EXTENDS Integers, Sequences, FiniteSets, TLC

VARIABLES
    platform,        \* build: which Q_OS_* macros are defined
    ndebug,          \* build: TRUE when NDEBUG is defined, assert() expands to nothing
    chatFontFamily,  \* setting /appearance/currentFontFamily
    chatFontSize,    \* setting /appearance/currentFontSize
    boldScale,       \* setting getSettings()->boldScale
    connected,       \* TRUE once initialize has connected the change handlers
    fontsByType_,    \* the cache: one map scale -> FontData per FontStyle
    sizeScale,       \* the function-local static table of createFontData
    pc,              \* position of the GUI thread
    handler,         \* the change handler that is running, "none" between handlers
    trace,           \* effects the running handler has performed so far, in order
    lastCall,        \* the last getFont / getFontMetrics call and what it returned
    dropped          \* (type, scale) pairs that the last setting change found cached

vars == <<platform, ndebug, chatFontFamily, chatFontSize, boldScale, connected,
          fontsByType_, sizeScale, pc, handler, trace, lastCall, dropped>>

-----------------------------------------------------------------------------
(* Bounds of the model.                                                    *)

\* at most this many FontData are cached at a time
MaxEntries == 2

\* the pure-function specification draws the base chat size from 1..MaxFontSize
MaxFontSize == 30

\* the pure-function specification draws the boldness from -MaxBoldMargin .. 100 + MaxBoldMargin
MaxBoldMargin == 3

-----------------------------------------------------------------------------
(* Build configuration.                                                    *)

Platforms == {"win32", "macos", "other"}

\* the platform the cache specification is run on
MainPlatforms == {"macos"}

Q_OS_WIN32 == platform = "win32"

Q_OS_MACOS == platform = "macos"

\* Q_OS_MAC is defined on every Darwin target, macOS among them
Q_OS_MAC == platform = "macos"

DEFAULT_FONT_FAMILY ==
    IF Q_OS_WIN32 THEN "Segoe UI"
    ELSE IF Q_OS_MACOS THEN "Helvetica Neue"
    ELSE "Arial"

DEFAULT_FONT_SIZE ==
    IF Q_OS_WIN32 THEN 10
    ELSE IF Q_OS_MACOS THEN 12
    ELSE 11

\* the toolkit the file is compiled against; 6 selects the mapping branch of getBoldness
QT_VERSION_MAJOR == 6

\* the application build defines CHATTERINO, which compiles the boldScale handler in
CHATTERINO == TRUE

INT_MAX == 2147483647

-----------------------------------------------------------------------------
(* FontStyle.                                                              *)

Tiny == 0

ChatSmall == 1

ChatMediumSmall == 2

ChatMedium == 3

ChatMediumBold == 4

ChatMediumItalic == 5

ChatLarge == 6

ChatVeryLarge == 7

UiMedium == 8

UiMediumBold == 9

UiTabs == 10

EndType == 11

ChatStart == ChatSmall

ChatEnd == ChatVeryLarge

\* the styles that index a bucket of fontsByType_
FontStyles == 0 .. (EndType - 1)

ChatStyles == ChatStart .. ChatEnd

UiStyles == FontStyles \ ChatStyles

\* the values callers pass: the first and the last style, the chat style that depends on
\* all three settings, and the enumerator EndType itself, which is no style
RequestStyles == {Tiny, ChatMediumBold, UiTabs, EndType}

-----------------------------------------------------------------------------
(* QFont::Weight.  Qt 6 uses the OpenType scale, Qt 5 the legacy scale.    *)

QFont_Thin == IF QT_VERSION_MAJOR >= 6 THEN 100 ELSE 0

QFont_ExtraLight == IF QT_VERSION_MAJOR >= 6 THEN 200 ELSE 12

QFont_Light == IF QT_VERSION_MAJOR >= 6 THEN 300 ELSE 25

QFont_Normal == IF QT_VERSION_MAJOR >= 6 THEN 400 ELSE 50

QFont_Medium == IF QT_VERSION_MAJOR >= 6 THEN 500 ELSE 57

QFont_DemiBold == IF QT_VERSION_MAJOR >= 6 THEN 600 ELSE 63

QFont_Bold == IF QT_VERSION_MAJOR >= 6 THEN 700 ELSE 75

QFont_ExtraBold == IF QT_VERSION_MAJOR >= 6 THEN 800 ELSE 81

QFont_Black == IF QT_VERSION_MAJOR >= 6 THEN 900 ELSE 87

-----------------------------------------------------------------------------
(* Single-precision arithmetic.  A float is [m, e], the value m * 2^e with *)
(* 0 <= m < 2^24; the canonical form has m odd, or m = 0 and e = 0.        *)
(* Exponents stay far from the limits of the format, so neither overflow   *)
(* to infinity nor subnormals arise.                                       *)

Pow2(k) == 2 ^ k

RECURSIVE BitLen(_)
\* number of significant bits of n >= 0
BitLen(n) == IF n = 0 THEN 0 ELSE 1 + BitLen(n \div 2)

RECURSIVE Canon(_)
\* the canonical form of a float
Canon(f) ==
    IF f.m = 0 THEN [m |-> 0, e |-> 0]
    ELSE IF f.m % 2 = 0 THEN Canon([m |-> f.m \div 2, e |-> f.e + 1])
    ELSE f

\* round the exact value m * 2^e to 24 significant bits, to nearest, ties to even
FRound(m, e) ==
    LET len == BitLen(m)
    IN  IF len <= 24 THEN Canon([m |-> m, e |-> e])
        ELSE LET k == len - 24
                 q == m \div Pow2(k)
                 rem == m % Pow2(k)
                 half == Pow2(k - 1)
                 up == rem > half \/ (rem = half /\ q % 2 = 1)
             IN  Canon([m |-> IF up THEN q + 1 ELSE q, e |-> e + k])

\* the float literal nearest to the decimal num / den (0 < num / den < 4)
FLit(num, den) ==
    LET k == IF num >= 2 * den THEN 22 ELSE IF num >= den THEN 23 ELSE 24
        q == (num * Pow2(k)) \div den
        rem == (num * Pow2(k)) % den
        up == 2 * rem > den \/ (2 * rem = den /\ q % 2 = 1)
    IN  Canon([m |-> IF up THEN q + 1 ELSE q, e |-> 0 - k])

\* int -> float conversion
IntToFloat(n) == FRound(n, 0)

\* float * float
FMul(a, b) == FRound(a.m * b.m, a.e + b.e)

\* int(float): the fractional part is discarded
FloatToInt(f) ==
    IF f.e >= 0 THEN f.m * Pow2(f.e) ELSE f.m \div Pow2(0 - f.e)

\* the literals of the source
Float_0_6 == FLit(6, 10)

Float_0_8 == FLit(8, 10)

Float_1 == IntToFloat(1)

Float_1_2 == FLit(12, 10)

Float_1_4 == FLit(14, 10)

-----------------------------------------------------------------------------
(* getBoldness.                                                            *)

qAbs(x) == IF x < 0 THEN 0 - x ELSE x

legacyToOpenTypeMap ==
    << <<0, QFont_Thin>>,
       <<12, QFont_ExtraLight>>,
       <<25, QFont_Light>>,
       <<50, QFont_Normal>>,
       <<57, QFont_Medium>>,
       <<63, QFont_DemiBold>>,
       <<75, QFont_Bold>>,
       <<81, QFont_ExtraBold>>,
       <<87, QFont_Black>> >>

RECURSIVE BoldnessScan(_, _, _, _)
\* the range-for loop of getBoldness from element i on
BoldnessScan(i, result, closestDist, target) ==
    IF i > Len(legacyToOpenTypeMap) THEN result
    ELSE LET weightOld == legacyToOpenTypeMap[i][1]
             weightNew == legacyToOpenTypeMap[i][2]
             dist == qAbs(weightOld - target)
         IN  IF dist < closestDist
             THEN BoldnessScan(i + 1, weightNew, dist, target)
             ELSE result

getBoldness ==
    IF QT_VERSION_MAJOR >= 6
    THEN BoldnessScan(1, QFont_Medium, INT_MAX, boldScale)
    ELSE boldScale

-----------------------------------------------------------------------------
(* QFont, QFontMetrics and FontData.                                       *)

\* QFont(family, pointSize, weight, italic): the font is its four constructor arguments
QFont(family, pointSize, weight, italic) ==
    [family |-> family, size |-> pointSize, weight |-> weight, italic |-> italic]

\* QFontMetrics(font): the metrics object derived from one font
QFontMetrics(font) == [of |-> font]

\* FontData(font) holds the font and the metrics derived from it
FontData(font) == [font |-> font, metrics |-> QFontMetrics(font)]

-----------------------------------------------------------------------------
(* createFontData.                                                         *)

\* the initializer list of the static table sizeScale, evaluated at the first chat resolution
sizeScaleInitializer ==
    [t \in ChatStyles |->
        CASE t = ChatSmall -> [scale |-> Float_0_6, italic |-> FALSE, weight |-> QFont_Normal]
          [] t = ChatMediumSmall -> [scale |-> Float_0_8, italic |-> FALSE, weight |-> QFont_Normal]
          [] t = ChatMedium -> [scale |-> Float_1, italic |-> FALSE, weight |-> QFont_Normal]
          [] t = ChatMediumBold -> [scale |-> Float_1, italic |-> FALSE, weight |-> getBoldness]
          [] t = ChatMediumItalic -> [scale |-> Float_1, italic |-> TRUE, weight |-> QFont_Normal]
          [] t = ChatLarge -> [scale |-> Float_1_2, italic |-> FALSE, weight |-> QFont_Normal]
          [] t = ChatVeryLarge -> [scale |-> Float_1_4, italic |-> FALSE, weight |-> QFont_Normal]]

\* the static table before the first chat resolution has constructed it
sizeScaleUnconstructed == [constructed |-> FALSE, table |-> [t \in {} |-> 0]]

\* faulty variant: the table keeps the weight its static initialization gave ChatMediumBold
sizeScaleAssigned_initializedOnce ==
    [constructed |-> TRUE,
     table |-> IF sizeScale.constructed THEN sizeScale.table ELSE sizeScaleInitializer]

\* the static table after a chat resolution: constructed once, ChatMediumBold overwritten every time
sizeScaleAssigned ==
    LET table == IF sizeScale.constructed THEN sizeScale.table ELSE sizeScaleInitializer
    IN  [constructed |-> TRUE,
         table |-> [table EXCEPT ![ChatMediumBold] =
                       [scale |-> Float_1, italic |-> FALSE, weight |-> getBoldness]]]

\* constexpr float multiplier of the Ui branch
multiplier == IF Q_OS_MAC THEN Float_0_8 ELSE Float_1

\* the static table defaultSize
defaultSize ==
    [t \in UiStyles |->
        CASE t = Tiny ->
               [size |-> 8, name |-> "Monospace", italic |-> FALSE, weight |-> QFont_Normal]
          [] t = UiMedium ->
               [size |-> FloatToInt(FMul(IntToFloat(9), multiplier)),
                name |-> DEFAULT_FONT_FAMILY, italic |-> FALSE, weight |-> QFont_Normal]
          [] t = UiMediumBold ->
               [size |-> FloatToInt(FMul(IntToFloat(9), multiplier)),
                name |-> DEFAULT_FONT_FAMILY, italic |-> FALSE, weight |-> QFont_Bold]
          [] t = UiTabs ->
               [size |-> FloatToInt(FMul(IntToFloat(9), multiplier)),
                name |-> DEFAULT_FONT_FAMILY, italic |-> FALSE, weight |-> QFont_Normal]]

\* faulty variant: the chat branch converts to int before it applies the caller's scale
createChatFontData_truncatesEarly(type, scale) ==
    LET data == sizeScaleAssigned.table[type]
    IN  FontData(QFont(chatFontFamily,
                       FloatToInt(FMul(IntToFloat(FloatToInt(FMul(IntToFloat(chatFontSize),
                                                                  data.scale))),
                                       scale)),
                       data.weight, data.italic))

\* the chat branch: the setting scaled by the style's multiplier and the caller's scale
createChatFontData(type, scale) ==
    LET data == sizeScaleAssigned.table[type]
    IN  FontData(QFont(chatFontFamily,
                       FloatToInt(FMul(FMul(IntToFloat(chatFontSize), data.scale), scale)),
                       data.weight, data.italic))

\* faulty variant: the Ui branch applies the platform multiplier to the caller's scale
createUiFontData_multiplierOnScale(type, scale) ==
    LET data == defaultSize[type]
        size == IF type = Tiny THEN IntToFloat(8) ELSE IntToFloat(9)
        factor == IF type = Tiny THEN scale ELSE FMul(multiplier, scale)
    IN  FontData(QFont(data.name, FloatToInt(FMul(size, factor)), data.weight, data.italic))

\* faulty variant: the Ui styles with the default family take the family of the setting
createUiFontData_usesChatFamily(type, scale) ==
    LET data == defaultSize[type]
    IN  FontData(QFont(IF type = Tiny THEN data.name ELSE chatFontFamily,
                       FloatToInt(FMul(IntToFloat(data.size), scale)),
                       data.weight, data.italic))

\* the Ui branch: the table's point size scaled by the caller's scale
createUiFontData(type, scale) ==
    LET data == defaultSize[type]
    IN  FontData(QFont(data.name,
                       FloatToInt(FMul(IntToFloat(data.size), scale)),
                       data.weight, data.italic))

\* createFontData(type, scale): the FontData it returns
createFontData(type, scale) ==
    IF type >= ChatStart /\ type <= ChatEnd
    THEN createChatFontData(type, scale)
    ELSE createUiFontData(type, scale)

\* createFontData(type, scale): the static table sizeScale it leaves behind
createFontDataStatics(type) ==
    IF type >= ChatStart /\ type <= ChatEnd THEN sizeScaleAssigned ELSE sizeScale

-----------------------------------------------------------------------------
(* Inputs of the model.                                                    *)

\* the scale factors callers pass: 1.0 and 1.5
Scales == {Float_1, FLit(3, 2)}

\* values of the family setting: the platform default and one the user picks
ChatFontFamilies == {DEFAULT_FONT_FAMILY, "Comic Sans MS"}

\* values of the base chat size setting: the platform default and one the user picks
ChatFontSizes == {DEFAULT_FONT_SIZE, 14}

\* values of the boldness setting
BoldScales == {50, 63}

-----------------------------------------------------------------------------
(* The cache.                                                              *)

\* an empty std::unordered_map<float, FontData>
EmptyMap == [x \in {} |-> 0]

\* fontsByType_.resize(size_t(FontStyle::EndType)): EndType empty buckets
fontsByType_resized == [t \in FontStyles |-> EmptyMap]

\* the (type, scale) pairs that have a FontData
CachedPairs == UNION {{<<t, x>> : x \in DOMAIN fontsByType_[t]} : t \in FontStyles}

\* map.emplace(key, value): inserts unless the key is present; second tells whether it inserted
emplace(map, key, value) ==
    IF key \in DOMAIN map
    THEN [map |-> map, second |-> FALSE]
    ELSE [map |-> [x \in (DOMAIN map) \cup {key} |-> IF x = key THEN value ELSE map[x]],
          second |-> TRUE]

\* faulty variant: the clearing loop leaves the buckets of the chat styles alone
clearBuckets_keepsChat(buckets) ==
    [t \in DOMAIN buckets |-> IF t \in ChatStyles THEN buckets[t] ELSE EmptyMap]

\* faulty variant: the clearing loop stops one bucket early
clearBuckets_skipsLast(buckets) ==
    [t \in DOMAIN buckets |-> IF t = EndType - 1 THEN buckets[t] ELSE EmptyMap]

\* for (auto &map : this->fontsByType_) map.clear();
clearBuckets(buckets) == [t \in DOMAIN buckets |-> EmptyMap]

\* faulty variant: no find(), every call creates and emplaces
getOrCreateFontData_noFind(type, scale) ==
    LET map == fontsByType_[type]
        result == emplace(map, scale, createFontData(type, scale))
    IN  [data |-> result.map[scale], created |-> TRUE, second |-> result.second,
         cache |-> [fontsByType_ EXCEPT ![type] = result.map],
         statics |-> createFontDataStatics(type)]

\* faulty variant: find() looks into the first bucket, emplace() into the bucket of type
getOrCreateFontData_findsInFirstBucket(type, scale) ==
    LET map == fontsByType_[type]
    IN  IF scale \in DOMAIN fontsByType_[0]
        THEN [data |-> fontsByType_[0][scale], created |-> FALSE, second |-> TRUE,
              cache |-> fontsByType_, statics |-> sizeScale]
        ELSE LET result == emplace(map, scale, createFontData(type, scale))
             IN  [data |-> result.map[scale], created |-> TRUE, second |-> result.second,
                  cache |-> [fontsByType_ EXCEPT ![type] = result.map],
                  statics |-> createFontDataStatics(type)]

\* faulty variant: a miss evicts what the bucket holds before it inserts
getOrCreateFontData_evictsBucket(type, scale) ==
    LET map == fontsByType_[type]
    IN  IF scale \in DOMAIN map
        THEN [data |-> map[scale], created |-> FALSE, second |-> TRUE,
              cache |-> fontsByType_, statics |-> sizeScale]
        ELSE LET result == emplace(EmptyMap, scale, createFontData(type, scale))
             IN  [data |-> result.map[scale], created |-> TRUE, second |-> result.second,
                  cache |-> [fontsByType_ EXCEPT ![type] = result.map],
                  statics |-> createFontDataStatics(type)]

\* getOrCreateFontData(type, scale) for type < EndType: the entry it returns, whether it
\* ran createFontData, and the cache and the static table it leaves behind
getOrCreateFontData(type, scale) ==
    LET map == fontsByType_[type]
    IN  IF scale \in DOMAIN map
        THEN [data |-> map[scale], created |-> FALSE, second |-> TRUE,
              cache |-> fontsByType_, statics |-> sizeScale]
        ELSE LET result == emplace(map, scale, createFontData(type, scale))
             IN  [data |-> result.map[scale], created |-> TRUE, second |-> result.second,
                  cache |-> [fontsByType_ EXCEPT ![type] = result.map],
                  statics |-> createFontDataStatics(type)]

-----------------------------------------------------------------------------
(* Calls of the public operations.                                         *)

NoFont == QFont("", 0, 0, FALSE)

NoMetrics == QFontMetrics(NoFont)

\* the last operation and what it returned; here: no call since the last handler step
NoCall ==
    [op |-> "none", thread |-> "gui", type |-> 0, scale |-> Float_1, outcome |-> "none",
     created |-> FALSE, recached |-> FALSE, font |-> NoFont, metrics |-> NoMetrics]

\* what an out-of-bounds read of fontsByType_ may hand back
GarbageFont == QFont("?", 0, 0, FALSE)

\* faulty variant: the assertion admits EndType
typeInRange_offByOne(type) == type <= EndType

\* the condition of assert(type < FontStyle::EndType)
typeInRange(type) == type < EndType

\* the call fails an enabled assertion: abort(), nothing is returned and nothing changes
CallAborts(op, type, scale) ==
    /\ pc' = "aborted"
    /\ UNCHANGED <<fontsByType_, sizeScale>>
    /\ lastCall' = [NoCall EXCEPT !.op = op, !.type = type, !.scale = scale,
                                  !.outcome = "assert_failed"]

\* fontsByType_[size_t(type)] reads past the end of the vector: the behaviour is undefined,
\* the process crashes or the call hands back whatever lies there
CallOutOfBounds(op, type, scale) ==
    /\ pc' = "undefined"
    /\ UNCHANGED <<fontsByType_, sizeScale>>
    /\ \E outcome \in {"crashed", "returned"} :
         lastCall' =
           [NoCall EXCEPT !.op = op, !.type = type, !.scale = scale, !.outcome = outcome,
                          !.font = IF outcome = "returned" /\ op = "getFont"
                                   THEN GarbageFont ELSE NoFont,
                          !.metrics = IF outcome = "returned" /\ op = "getFontMetrics"
                                      THEN QFontMetrics(GarbageFont) ELSE NoMetrics]

\* the call looks the entry up or creates it and returns the member that op selects
CallReturns(op, type, scale) ==
    LET r == getOrCreateFontData(type, scale)
    IN  /\ r.created => Cardinality(CachedPairs) < MaxEntries
        /\ IF ~ndebug /\ ~r.second
           THEN CallAborts(op, type, scale)
           ELSE /\ pc' = pc
                /\ fontsByType_' = r.cache
                /\ sizeScale' = r.statics
                /\ lastCall' =
                     [op |-> op, thread |-> "gui", type |-> type, scale |-> scale,
                      outcome |-> "returned",
                      created |-> r.created, recached |-> <<type, scale>> \in dropped,
                      font |-> IF op = "getFont" THEN r.data.font ELSE NoFont,
                      metrics |-> IF op = "getFontMetrics" THEN r.data.metrics ELSE NoMetrics]

\* the body shared by getFont and getFontMetrics, called on the GUI thread
Call(op, type, scale) ==
    /\ pc \in {"idle", "subscribers"}
    /\ UNCHANGED <<platform, ndebug, chatFontFamily, chatFontSize, boldScale, connected,
                   handler, trace>>
    /\ dropped' = {}
    /\ IF ~ndebug /\ ~typeInRange(type) THEN CallAborts(op, type, scale)
       ELSE IF type \notin DOMAIN fontsByType_ THEN CallOutOfBounds(op, type, scale)
       ELSE CallReturns(op, type, scale)

getFont(type, scale) == Call("getFont", type, scale)

\* faulty variant: getFontMetrics resolves a font of its own and leaves the cache alone
getFontMetrics_private(type, scale) ==
    /\ pc \in {"idle", "subscribers"}
    /\ type \in FontStyles
    /\ UNCHANGED <<platform, ndebug, chatFontFamily, chatFontSize, boldScale, connected,
                   fontsByType_, sizeScale, pc, handler, trace>>
    /\ dropped' = {}
    /\ lastCall' = [NoCall EXCEPT !.op = "getFontMetrics", !.type = type, !.scale = scale,
                                  !.outcome = "returned", !.created = TRUE,
                                  !.metrics = createFontData(type, scale).metrics]

getFontMetrics(type, scale) == Call("getFontMetrics", type, scale)

-----------------------------------------------------------------------------
(* initialize and the change handlers.  A handler runs to its end before   *)
(* anything else happens; while fontChanged.invoke() runs, its subscribers *)
(* may call getFont and getFontMetrics.  Settings change only once the     *)
(* application has initialized its singletons, and a change notification   *)
(* reaches the handler of this file before any other code asks for a font. *)

\* faulty variant: the boldScale handler clears before it bumps the generation
HandlerBody_clearsBeforeBump(h) ==
    IF h = "boldScale"
    THEN <<"clear", "incGeneration", "fontChanged">>
    ELSE <<"clear", "fontChanged">>

\* faulty variant: the handlers broadcast before they clear
HandlerBody_broadcastsFirst(h) ==
    IF h = "boldScale"
    THEN <<"incGeneration", "fontChanged", "clear">>
    ELSE <<"fontChanged", "clear">>

\* faulty variant: the boldScale handler does not clear
HandlerBody_boldSkipsClear(h) ==
    IF h = "boldScale"
    THEN <<"incGeneration", "fontChanged">>
    ELSE <<"clear", "fontChanged">>

\* the statements of the handler connected to the setting h, after assertInGuiThread()
HandlerBody(h) ==
    IF h = "boldScale"
    THEN <<"incGeneration", "clear", "fontChanged">>
    ELSE <<"clear", "fontChanged">>

\* the statement the running handler executes next
NextStatement ==
    IF Len(trace) < Len(HandlerBody(handler))
    THEN HandlerBody(handler)[Len(trace) + 1]
    ELSE "return"

\* faulty variant: connect(..., true) runs the handler it connects at once
initialize_firesOnSubscribe ==
    /\ pc = "idle"
    /\ ~connected
    /\ connected' = TRUE
    /\ handler' = "chatFontFamily"
    /\ trace' = << >>
    /\ pc' = "handler"
    /\ lastCall' = [NoCall EXCEPT !.op = "initialize"]
    /\ dropped' = CachedPairs
    /\ UNCHANGED <<platform, ndebug, chatFontFamily, chatFontSize, boldScale,
                   fontsByType_, sizeScale>>

\* initialize(): connects the three handlers; connect(..., false) runs none of them
initialize ==
    /\ pc = "idle"
    /\ ~connected
    /\ connected' = TRUE
    /\ lastCall' = [NoCall EXCEPT !.op = "initialize"]
    /\ UNCHANGED <<platform, ndebug, chatFontFamily, chatFontSize, boldScale,
                   fontsByType_, sizeScale, pc, handler, trace, dropped>>

\* a change notification enters the handler h: assertInGuiThread() passes on the GUI thread
EnterHandler(h) ==
    /\ pc = "idle"
    /\ connected
    /\ handler' = h
    /\ trace' = << >>
    /\ lastCall' = NoCall
    /\ dropped' = CachedPairs
    /\ pc' = "handler"
    /\ UNCHANGED <<platform, ndebug, connected, fontsByType_, sizeScale>>

\* chatFontFamily takes the value v and notifies
chatFontFamily_changed(v) ==
    /\ EnterHandler("chatFontFamily")
    /\ chatFontFamily' = v
    /\ UNCHANGED <<chatFontSize, boldScale>>

\* chatFontSize takes the value v and notifies
chatFontSize_changed(v) ==
    /\ EnterHandler("chatFontSize")
    /\ chatFontSize' = v
    /\ UNCHANGED <<chatFontFamily, boldScale>>

\* boldScale takes the value v and notifies
boldScale_changed(v) ==
    /\ CHATTERINO
    /\ EnterHandler("boldScale")
    /\ boldScale' = v
    /\ UNCHANGED <<chatFontFamily, chatFontSize>>

\* getIApp()->getWindows()->incGeneration()
incGeneration ==
    /\ pc = "handler"
    /\ NextStatement = "incGeneration"
    /\ trace' = Append(trace, "incGeneration")
    /\ UNCHANGED <<platform, ndebug, chatFontFamily, chatFontSize, boldScale, connected,
                   fontsByType_, sizeScale, pc, handler, lastCall, dropped>>

\* the clearing loop of a handler
clearLoop ==
    /\ pc = "handler"
    /\ NextStatement = "clear"
    /\ fontsByType_' = clearBuckets(fontsByType_)
    /\ trace' = Append(trace, "clear")
    /\ UNCHANGED <<platform, ndebug, chatFontFamily, chatFontSize, boldScale, connected,
                   sizeScale, pc, handler, lastCall, dropped>>

\* this->fontChanged.invoke(): the subscribers start to run
fontChanged_invoke ==
    /\ pc = "handler"
    /\ NextStatement = "fontChanged"
    /\ trace' = Append(trace, "fontChanged")
    /\ pc' = "subscribers"
    /\ UNCHANGED <<platform, ndebug, chatFontFamily, chatFontSize, boldScale, connected,
                   fontsByType_, sizeScale, handler, lastCall, dropped>>

\* the subscribers have run and fontChanged.invoke() returns to the handler
fontChanged_return ==
    /\ pc = "subscribers"
    /\ pc' = "handler"
    /\ UNCHANGED <<platform, ndebug, chatFontFamily, chatFontSize, boldScale, connected,
                   fontsByType_, sizeScale, handler, trace, lastCall, dropped>>

\* the handler has executed its last statement and returns
handlerReturn ==
    /\ pc = "handler"
    /\ NextStatement = "return"
    /\ pc' = "idle"
    /\ handler' = "none"
    /\ trace' = << >>
    /\ lastCall' = NoCall
    /\ UNCHANGED <<platform, ndebug, chatFontFamily, chatFontSize, boldScale, connected,
                   fontsByType_, sizeScale, dropped>>

-----------------------------------------------------------------------------
(* Threads.  The cache has no lock: the first statement of                 *)
(* getOrCreateFontData and of every handler is assertInGuiThread().  A     *)
(* call or a notification on another thread can arrive at any moment, also *)
(* while the GUI thread is inside a handler.                               *)

Threads == {"gui", "worker"}

\* debug/AssertInGuiThread.hpp: the thread assertion lets the caller go on; like assert()
\* it checks only in a build with assertions enabled
assertInGuiThread(thread) == ndebug \/ thread = "gui"

\* what is known of an operation that ran on the thread
OffThreadOutcome(op, thread, type, scale, outcome) ==
    [NoCall EXCEPT !.op = op, !.thread = thread, !.type = type, !.scale = scale,
                   !.outcome = outcome]

\* faulty variant: the thread assertion comes after the lookup and the insertion
OffThreadCall_assertsAfterLookup(op, thread, type, scale) ==
    LET r == getOrCreateFontData(type, scale)
    IN  /\ thread # "gui"
        /\ pc \in {"idle", "handler", "subscribers"}
        /\ type \in FontStyles
        /\ r.created => Cardinality(CachedPairs) < MaxEntries
        /\ UNCHANGED <<platform, ndebug, chatFontFamily, chatFontSize, boldScale, connected,
                       handler, trace, dropped>>
        /\ fontsByType_' = r.cache
        /\ sizeScale' = r.statics
        /\ pc' = IF assertInGuiThread(thread) THEN "undefined" ELSE "aborted"
        /\ lastCall' = OffThreadOutcome(op, thread, type, scale,
                            IF assertInGuiThread(thread) THEN "returned" ELSE "assert_failed")

\* getFont or getFontMetrics called on a thread that is not the GUI thread.  Where the
\* assertion checks, the call aborts in its first statement.  Where it does not, the call
\* uses fontsByType_ and sizeScale unsynchronized with the GUI thread, a data race: the
\* behaviour is undefined, the call crashes or carries out its lookup and insertion
OffThreadCall(op, thread, type, scale) ==
    LET r == getOrCreateFontData(type, scale)
    IN  /\ thread # "gui"
        /\ pc \in {"idle", "handler", "subscribers"}
        /\ type \in FontStyles
        /\ r.created => Cardinality(CachedPairs) < MaxEntries
        /\ UNCHANGED <<platform, ndebug, chatFontFamily, chatFontSize, boldScale, connected,
                       handler, trace, dropped>>
        /\ IF ~assertInGuiThread(thread)
           THEN /\ pc' = "aborted"
                /\ UNCHANGED <<fontsByType_, sizeScale>>
                /\ lastCall' = OffThreadOutcome(op, thread, type, scale, "assert_failed")
           ELSE /\ pc' = "undefined"
                /\ \E outcome \in {"crashed", "returned"} :
                     /\ lastCall' = OffThreadOutcome(op, thread, type, scale, outcome)
                     /\ fontsByType_' = IF outcome = "returned" THEN r.cache ELSE fontsByType_
                     /\ sizeScale' = IF outcome = "returned" THEN r.statics ELSE sizeScale

\* the change notification of the setting h is delivered on a thread that is not the GUI
\* thread: the handler aborts in its first statement, or races with the GUI thread
OffThreadNotify(h, thread) ==
    /\ thread # "gui"
    /\ pc \in {"idle", "handler", "subscribers"}
    /\ connected
    /\ h = "boldScale" => CHATTERINO
    /\ UNCHANGED <<platform, ndebug, chatFontFamily, chatFontSize, boldScale, connected,
                   sizeScale, handler, trace, dropped>>
    /\ IF ~assertInGuiThread(thread)
       THEN /\ pc' = "aborted"
            /\ UNCHANGED fontsByType_
            /\ lastCall' = OffThreadOutcome(h, thread, 0, Float_1, "assert_failed")
       ELSE /\ pc' = "undefined"
            /\ \E outcome \in {"crashed", "returned"} :
                 /\ lastCall' = OffThreadOutcome(h, thread, 0, Float_1, outcome)
                 /\ fontsByType_' = IF outcome = "returned" THEN clearBuckets(fontsByType_)
                                    ELSE fontsByType_

-----------------------------------------------------------------------------
(* The specification of the cache, in a build with assertions enabled.     *)

\* the state after Fonts::Fonts(): the settings hold their persisted values or the defaults
InitBuild(platforms, release) ==
    /\ platform \in platforms
    /\ ndebug = release
    /\ chatFontFamily \in ChatFontFamilies
    /\ chatFontSize \in ChatFontSizes
    /\ boldScale \in BoldScales
    /\ connected = FALSE
    /\ fontsByType_ = fontsByType_resized
    /\ sizeScale = sizeScaleUnconstructed
    /\ pc = "idle"
    /\ handler = "none"
    /\ trace = << >>
    /\ lastCall = NoCall
    /\ dropped = {}

Init == InitBuild(MainPlatforms, FALSE)

Next ==
    \/ \E type \in RequestStyles, scale \in Scales : getFont(type, scale)
    \/ \E type \in RequestStyles, scale \in Scales : getFontMetrics(type, scale)
    \/ initialize
    \/ \E v \in ChatFontFamilies : chatFontFamily_changed(v)
    \/ \E v \in ChatFontSizes : chatFontSize_changed(v)
    \/ \E v \in BoldScales : boldScale_changed(v)
    \/ incGeneration
    \/ clearLoop
    \/ fontChanged_invoke
    \/ fontChanged_return
    \/ handlerReturn

Spec == Init /\ [][Next]_vars

(* The calls alone, in both builds: with assertions enabled, and with     *)
(* NDEBUG, where assert() expands to nothing.                              *)

InitCalls ==
    \E release \in BOOLEAN : InitBuild(MainPlatforms, release)

NextCalls ==
    \/ \E type \in RequestStyles, scale \in Scales : getFont(type, scale)
    \/ \E type \in RequestStyles, scale \in Scales : getFontMetrics(type, scale)

SpecCalls == InitCalls /\ [][NextCalls]_vars

(* Two threads, in both builds: the GUI thread calls and handles changes   *)
(* of the font family; calls and notifications also arrive on a worker     *)
(* thread.                                                                 *)

ThreadStyles == {Tiny, ChatMediumBold}

HandlerNames == {"chatFontFamily", "chatFontSize", "boldScale"}

NextThreads ==
    \/ \E type \in ThreadStyles, scale \in Scales : getFont(type, scale)
    \/ \E type \in ThreadStyles, scale \in Scales : getFontMetrics(type, scale)
    \/ initialize
    \/ \E v \in ChatFontFamilies : chatFontFamily_changed(v)
    \/ clearLoop
    \/ fontChanged_invoke
    \/ fontChanged_return
    \/ handlerReturn
    \/ \E op \in {"getFont", "getFontMetrics"}, type \in ThreadStyles, scale \in Scales :
          OffThreadCall(op, "worker", type, scale)
    \/ \E h \in HandlerNames : OffThreadNotify(h, "worker")

SpecThreads == InitCalls /\ [][NextThreads]_vars

-----------------------------------------------------------------------------
(* The chat styles under changes of boldScale: the static table sizeScale  *)
(* lives across resolutions and invalidations.                             *)

\* Thin, Normal, DemiBold and Black on the slider
BoldnessValues == {0, 50, 63, 100}

InitBold ==
    /\ platform \in MainPlatforms
    /\ ndebug = FALSE
    /\ chatFontFamily = DEFAULT_FONT_FAMILY
    /\ chatFontSize = DEFAULT_FONT_SIZE
    /\ boldScale \in BoldnessValues
    /\ connected = TRUE
    /\ fontsByType_ = fontsByType_resized
    /\ sizeScale = sizeScaleUnconstructed
    /\ pc = "idle"
    /\ handler = "none"
    /\ trace = << >>
    /\ lastCall = NoCall
    /\ dropped = {}

NextBold ==
    \/ \E type \in ChatStyles : getFont(type, Float_1)
    \/ \E v \in BoldnessValues : boldScale_changed(v)
    \/ incGeneration
    \/ clearLoop
    \/ fontChanged_invoke
    \/ fontChanged_return
    \/ handlerReturn

SpecBold == InitBold /\ [][NextBold]_vars

-----------------------------------------------------------------------------
(* The Ui styles under changes of all three settings.                      *)

NextUi ==
    \/ \E type \in UiStyles, scale \in Scales : getFont(type, scale)
    \/ initialize
    \/ \E v \in ChatFontFamilies : chatFontFamily_changed(v)
    \/ \E v \in ChatFontSizes : chatFontSize_changed(v)
    \/ \E v \in BoldScales : boldScale_changed(v)
    \/ incGeneration
    \/ clearLoop
    \/ fontChanged_invoke
    \/ fontChanged_return
    \/ handlerReturn

SpecUi == Init /\ [][NextUi]_vars

-----------------------------------------------------------------------------
(* The specification of the resolution rules: the settings are drawn from  *)
(* wide ranges and one font is resolved.                                   *)

\* scale factors 0.5, 1.0, 1.25, 1.5 and 2.0
FnScales == {FLit(1, 2), Float_1, FLit(5, 4), FLit(3, 2), FLit(2, 1)}

FnFontSizes == 1 .. MaxFontSize

\* the slider range with a margin, and the largest value the int setting can hold
FnBoldScales == ((0 - MaxBoldMargin) .. (100 + MaxBoldMargin)) \cup {INT_MAX}

InitFn ==
    /\ platform \in Platforms
    /\ ndebug = FALSE
    /\ chatFontFamily \in ChatFontFamilies
    /\ \/ chatFontSize \in FnFontSizes /\ boldScale = 63
       \/ chatFontSize = DEFAULT_FONT_SIZE /\ boldScale \in FnBoldScales
    /\ connected = TRUE
    /\ fontsByType_ = fontsByType_resized
    /\ sizeScale = sizeScaleUnconstructed
    /\ pc = "idle"
    /\ handler = "none"
    /\ trace = << >>
    /\ lastCall = NoCall
    /\ dropped = {}

\* the first resolution of a font after start-up
NextFn ==
    \E type \in FontStyles, scale \in FnScales :
        /\ CachedPairs = {}
        /\ getFont(type, scale)

SpecFn == InitFn /\ [][NextFn]_vars

-----------------------------------------------------------------------------
(* Properties.                                                             *)

\* the last call returned normally for a valid style
Returned == lastCall.outcome = "returned" /\ lastCall.type \in FontStyles

\* the entry cached for the pair of the last call
LastEntry == fontsByType_[lastCall.type][lastCall.scale]

\* every cached entry is what createFontData yields from the current settings
Coherent ==
    \A t \in FontStyles : \A x \in DOMAIN fontsByType_[t] :
        fontsByType_[t][x] = createFontData(t, x)

\* C1: a getFont(S, X) stores the entry it returns, and a getFont(S, X) for a pair that is
\* cached (by an earlier call, no invalidation since) is a cache hit: it returns the font
\* of the stored entry, does not run createFontData and changes neither the cache nor the
\* static table.
C1_RepeatedGetFontIsCacheHit ==
    [][LET type == lastCall'.type
           scale == lastCall'.scale
       IN  (type \in FontStyles /\ scale \in Scales /\ getFont(type, scale)) =>
             /\ scale \in DOMAIN fontsByType_'[type]
             /\ lastCall'.font = fontsByType_'[type][scale].font
             /\ scale \in DOMAIN fontsByType_[type] =>
                  /\ lastCall'.font = fontsByType_[type][scale].font
                  /\ ~lastCall'.created
                  /\ fontsByType_' = fontsByType_
                  /\ sizeScale' = sizeScale]_vars

\* C1 witness: a getFont call that was answered from the cache
C1_Witness ==
    /\ Returned
    /\ lastCall.op = "getFont"
    /\ ~lastCall.created
    /\ lastCall.font = LastEntry.font

\* C2: the first getFont(S, X) after a setting change, for a pair the change found cached,
\* creates a new entry and returns the font createFontData resolves from the settings as
\* they are at the call.
C2_GetFontAfterChangeReflectsSettings ==
    (Returned /\ lastCall.op = "getFont" /\ lastCall.recached) =>
        /\ lastCall.created
        /\ lastCall.font = createFontData(lastCall.type, lastCall.scale).font

\* C2 witness: the bold chat style, cached under the platform's family, is asked for again
\* after a change and comes back with the new family
C2_Witness ==
    /\ Returned
    /\ lastCall.op = "getFont"
    /\ lastCall.recached
    /\ lastCall.type = ChatMediumBold
    /\ lastCall.font.family = "Comic Sans MS"

\* the running handler has just finished its clearing loop
JustCleared == pc = "handler" /\ trace # << >> /\ trace[Len(trace)] = "clear"

\* C3: right after the clearing loop of any handler every bucket 0 .. EndType-1 is empty
C3_ClearEmptiesEveryBucket ==
    JustCleared => \A t \in 0 .. (EndType - 1) : DOMAIN fontsByType_[t] = {}

\* C3 witness: the loop has run while two styles at two scales were cached
C3_Witness ==
    /\ JustCleared
    /\ \E p, q \in dropped : p[1] # q[1] /\ p[2] # q[2]

\* the number of fontChanged broadcasts of the running handler
Broadcasts == Cardinality({i \in DOMAIN trace : trace[i] = "fontChanged"})

\* C4: the boldScale handler bumps the generation, then clears, then broadcasts, in this
\* order and no other; when the broadcast starts the cache is empty, and subscribers run
\* only after the bump and the clearing, with no entry older than the change.
C4_BoldScaleHandlerOrder ==
    handler = "boldScale" =>
        /\ trace \in {<< >>, <<"incGeneration">>, <<"incGeneration", "clear">>,
                      <<"incGeneration", "clear", "fontChanged">>}
        /\ trace = <<"incGeneration", "clear">> => CachedPairs = {}
        /\ pc = "subscribers" =>
             /\ trace = <<"incGeneration", "clear", "fontChanged">>
             /\ lastCall = NoCall => CachedPairs = {}
             /\ Coherent

\* C4 witness: the subscribers of a boldness change run, the change had found entries cached
C4_Witness ==
    /\ handler = "boldScale"
    /\ pc = "subscribers"
    /\ dropped # {}
    /\ CachedPairs = {}

\* C5: a handler broadcasts exactly once before it returns, the broadcast comes after the
\* clearing, entries leave the cache only in the clearing loop and never after the
\* broadcast of the running handler, and what subscribers cache is resolved from the new
\* settings.
C5_OneBroadcastAfterClearing ==
    /\ [](/\ Broadcasts <= 1
          /\ pc = "subscribers" =>
               /\ Broadcasts = 1
               /\ trace[Len(trace)] = "fontChanged"
               /\ \E i \in 1 .. (Len(trace) - 1) : trace[i] = "clear"
               /\ Coherent)
    /\ [][/\ handlerReturn => Broadcasts = 1
          /\ ~(CachedPairs \subseteq CachedPairs') =>
               (clearLoop /\ Broadcasts = 0 /\ CachedPairs' = {})]_vars

\* C5 witness: inside the broadcast of a family change a subscriber has created an entry
C5_Witness ==
    /\ pc = "subscribers"
    /\ handler = "chatFontFamily"
    /\ Returned
    /\ lastCall.created
    /\ <<lastCall.type, lastCall.scale>> \in CachedPairs

\* the last call asked for a style outside the enumerated range
OutOfRangeCall == lastCall.op # "none" /\ lastCall.type >= EndType

\* C9 as stated: a call with style >= EndType ends in the failed assertion, whatever the build
C9_OutOfRangeStyleIsFatal ==
    OutOfRangeCall =>
        /\ lastCall.outcome = "assert_failed"
        /\ pc = "aborted"
        /\ lastCall.font = NoFont
        /\ lastCall.metrics = NoMetrics

\* C9 amended: in a build with assertions enabled a call with style >= EndType ends in the
\* failed assertion, returns nothing and leaves the cache as it was
C9_OutOfRangeStyleAssertsInDebugBuild ==
    /\ []((OutOfRangeCall /\ ~ndebug) =>
            /\ lastCall.outcome = "assert_failed"
            /\ pc = "aborted"
            /\ lastCall.font = NoFont
            /\ lastCall.metrics = NoMetrics)
    /\ [][(~ndebug /\ lastCall'.op # "none" /\ lastCall'.type >= EndType) =>
            (fontsByType_' = fontsByType_ /\ sizeScale' = sizeScale)]_vars

\* C9 witness: the assertion has failed on getFont(EndType, _) while entries were cached
C9_Witness ==
    /\ OutOfRangeCall
    /\ ~ndebug
    /\ lastCall.outcome = "assert_failed"
    /\ CachedPairs # {}

\* C10: both operations return members of the one entry cached for the pair: after either
\* call the pair is cached, the font returned is the entry's font, the metrics returned are
\* the entry's metrics, which are the metrics derived from the entry's font; a call for a
\* cached pair creates nothing and a call for an absent pair adds exactly that pair.
C10_FontAndMetricsShareOneEntry ==
    /\ [](/\ Returned =>
               /\ <<lastCall.type, lastCall.scale>> \in CachedPairs
               /\ lastCall.op = "getFont" => lastCall.font = LastEntry.font
               /\ lastCall.op = "getFontMetrics" =>
                    lastCall.metrics = QFontMetrics(LastEntry.font)
          /\ \A t \in FontStyles : \A x \in DOMAIN fontsByType_[t] :
               fontsByType_[t][x].metrics = QFontMetrics(fontsByType_[t][x].font))
    /\ [][LET type == lastCall'.type
              scale == lastCall'.scale
          IN  (type \in FontStyles /\ scale \in Scales
               /\ (getFont(type, scale) \/ getFontMetrics(type, scale))) =>
                 /\ lastCall'.created = (<<type, scale>> \notin CachedPairs)
                 /\ CachedPairs' = CachedPairs \cup {<<type, scale>>}
                 /\ <<type, scale>> \in CachedPairs => fontsByType_' = fontsByType_]_vars

\* C10 witness: getFontMetrics was answered from an entry that getFont had created
C10_Witness ==
    /\ Returned
    /\ lastCall.op = "getFontMetrics"
    /\ ~lastCall.created
    /\ lastCall.metrics = QFontMetrics(LastEntry.font)

-----------------------------------------------------------------------------
(* Properties of the resolution rules.                                     *)

\* a full minimum search over the calibration points, the lower point on a tie
NearestWeight(target) ==
    LET dist(i) == qAbs(legacyToOpenTypeMap[i][1] - target)
        best == CHOOSE i \in DOMAIN legacyToOpenTypeMap :
                    \A j \in DOMAIN legacyToOpenTypeMap :
                        dist(i) < dist(j) \/ (dist(i) = dist(j) /\ i <= j)
    IN  legacyToOpenTypeMap[best][2]

\* the last call resolved the bold chat style
ResolvedBold == Returned /\ lastCall.created /\ lastCall.type = ChatMediumBold

\* C6: for every value of the boldness setting the weight of a resolved ChatMediumBold font
\* is the weight of the calibration point nearest to that value, the lower one on a tie
C6_BoldnessIsNearestCalibrationPoint ==
    ResolvedBold => lastCall.font.weight = NearestWeight(boldScale)

\* C6 within the sentinel: the scan agrees with the minimum search for |target| < INT_MAX
C6_NearestBelowIntMax ==
    (ResolvedBold /\ qAbs(boldScale) < INT_MAX) =>
        lastCall.font.weight = NearestWeight(boldScale)

\* the multiplier of a chat style as the decimal fraction <<numerator, denominator>>
ChatMultiplier(type) ==
    CASE type = ChatSmall -> <<6, 10>>
      [] type = ChatMediumSmall -> <<8, 10>>
      [] type = ChatLarge -> <<12, 10>>
      [] type = ChatVeryLarge -> <<14, 10>>
      [] OTHER -> <<1, 1>>

\* round(base * num / den * scale) in exact arithmetic, halves away from zero
RoundedProduct(base, num, den, scale) ==
    LET n == base * num * scale.m * (IF scale.e > 0 THEN Pow2(scale.e) ELSE 1)
        d == den * (IF scale.e < 0 THEN Pow2(0 - scale.e) ELSE 1)
    IN  (2 * n + d) \div (2 * d)

\* int((base * multiplier) * scale) in single precision
TruncatedProduct(base, multiplierLiteral, scale) ==
    FloatToInt(FMul(FMul(IntToFloat(base), multiplierLiteral), scale))

\* the last call resolved a chat style
ResolvedChat == Returned /\ lastCall.created /\ lastCall.type \in ChatStyles

\* C7 as stated: a chat font has the size round(base chat size * multiplier * scale) and
\* the family of the family setting
C7_ChatSizeIsRounded ==
    ResolvedChat =>
        /\ lastCall.font.size =
             RoundedProduct(chatFontSize, ChatMultiplier(lastCall.type)[1],
                            ChatMultiplier(lastCall.type)[2], lastCall.scale)
        /\ lastCall.font.family = chatFontFamily

\* C7 amended: a chat font has the size int((base chat size * multiplier) * scale), the
\* single-precision product with its fraction discarded, and the family of the family setting
C7_ChatSizeIsTruncated ==
    ResolvedChat =>
        /\ lastCall.font.size =
             TruncatedProduct(chatFontSize,
                              FLit(ChatMultiplier(lastCall.type)[1],
                                   ChatMultiplier(lastCall.type)[2]),
                              lastCall.scale)
        /\ lastCall.font.family = chatFontFamily

\* C7 witness: ChatSmall at base size 12 and scale 1.0 has size 7
C7_Witness ==
    /\ ResolvedChat
    /\ lastCall.type = ChatSmall
    /\ chatFontSize = 12
    /\ lastCall.scale = Float_1
    /\ lastCall.font.size = 7

\* the last call resolved a Ui style
ResolvedUi == Returned /\ lastCall.created /\ lastCall.type \in UiStyles

\* the family the claim gives a Ui style
UiFamily(type) == IF type = Tiny THEN "Monospace" ELSE DEFAULT_FONT_FAMILY

\* C8 as stated: a Ui font has the size round(base size * platform multiplier * scale),
\* base size 8 for Tiny and 9 for the others, multiplier 0.8 on macOS and 1.0 elsewhere
C8_UiSizeIsRounded ==
    ResolvedUi =>
        /\ lastCall.font.size =
             RoundedProduct(IF lastCall.type = Tiny THEN 8 ELSE 9,
                            IF platform = "macos" THEN 8 ELSE 10, 10, lastCall.scale)
        /\ lastCall.font.family = UiFamily(lastCall.type)

\* C8 amended: a Ui font has the size int(table size * scale), where the table size is 8
\* for Tiny on every platform and int(9 * multiplier) for the others, 7 on macOS and 9
\* elsewhere
C8_UiSizeIsTruncated ==
    ResolvedUi =>
        /\ lastCall.font.size =
             TruncatedProduct(IF lastCall.type = Tiny THEN 8
                              ELSE IF platform = "macos" THEN 7 ELSE 9,
                              Float_1, lastCall.scale)
        /\ lastCall.font.family = UiFamily(lastCall.type)

\* C8 witness: UiMedium on macOS at scale 1.5 has size 10
C8_Witness ==
    /\ ResolvedUi
    /\ lastCall.type = UiMedium
    /\ platform = "macos"
    /\ lastCall.scale = FLit(3, 2)
    /\ lastCall.font.size = 10

-----------------------------------------------------------------------------
(* Thread affinity.                                                        *)

\* the last operation ran on a thread that is not the GUI thread
OffThread == lastCall.thread # "gui"

\* the step is an operation on a thread that is not the GUI thread
OffThreadStep == lastCall'.thread # "gui" /\ lastCall.thread = "gui"

-----------------------------------------------------------------------------
(* The cache as a whole.                                                   *)

\* the step is a call of getFont or getFontMetrics on the GUI thread
CallStep ==
    /\ lastCall' # lastCall
    /\ lastCall'.op \in {"getFont", "getFontMetrics"}
    /\ lastCall'.thread = "gui"

\* the number of FontData objects the cache holds
NumEntries ==
    LET RECURSIVE Sum(_)
        Sum(t) == IF t >= EndType THEN 0 ELSE Cardinality(DOMAIN fontsByType_[t]) + Sum(t + 1)
    IN  Sum(0)

\* C12: the cache holds one FontData for every cached (style, scale) pair and none besides;
\* a call creates a FontData only if the pair has none, the emplace() after a failed find()
\* inserts (result.second holds), so assert(result.second) never fails: a call for a valid
\* style always returns, and the only assertion that can end a run is the range check of
\* an out-of-range style.
C12_OneEntryPerPairAndInsertionSucceeds ==
    /\ [](NumEntries = Cardinality(CachedPairs))
    /\ [](pc = "aborted" => OutOfRangeCall)
    /\ [][LET type == lastCall'.type
              scale == lastCall'.scale
          IN  CallStep /\ type \in FontStyles =>
                /\ getOrCreateFontData(type, scale).second
                /\ lastCall'.outcome = "returned"
                /\ lastCall'.created = (<<type, scale>> \notin CachedPairs)
                /\ lastCall'.created =>
                     /\ <<type, scale>> \in CachedPairs'
                     /\ Cardinality(CachedPairs') = Cardinality(CachedPairs) + 1]_vars

\* after a handler has returned, getFontMetrics looked a pair up in vain that the
\* invalidation had discarded, and inserted its one FontData anew
C12_Witness ==
    /\ pc = "idle"
    /\ Returned
    /\ lastCall.op = "getFontMetrics"
    /\ lastCall.created
    /\ lastCall.recached
    /\ <<lastCall.type, lastCall.scale>> \in CachedPairs
    /\ NumEntries = 1

\* the FontData cached for the pair p
EntryOf(buckets, p) == buckets[p[1]][p[2]]

\* the step is the clearing loop of a handler
ClearStep == pc = "handler" /\ pc' = "handler" /\ trace' = Append(trace, "clear")

\* C13: no eviction and no per-entry invalidation.  A call for (S, X) keeps every entry as
\* it is; on a miss it adds (S, X) and nothing else, on a hit it leaves the cache unchanged.
\* In no step is a cached entry replaced by another.  A pair leaves the cache only in the
\* clearing loop of a handler, and then the cache is empty afterwards; a pair enters the
\* cache only in a call for exactly that pair.
C13_NoEvictionNoPerEntryInvalidation ==
    [][LET pair == <<lastCall'.type, lastCall'.scale>>
       IN  /\ CallStep /\ lastCall'.type \in FontStyles =>
                /\ CachedPairs \subseteq CachedPairs'
                /\ CachedPairs' = CachedPairs \cup {pair}
                /\ pair \in CachedPairs => fontsByType_' = fontsByType_
           /\ \A p \in CachedPairs \cap CachedPairs' :
                EntryOf(fontsByType_', p) = EntryOf(fontsByType_, p)
           /\ CachedPairs \ CachedPairs' # {} => ClearStep /\ CachedPairs' = {}
           /\ CachedPairs' \ CachedPairs # {} =>
                CallStep /\ CachedPairs' \ CachedPairs = {pair}]_vars

\* a miss added a second scale to a bucket that held an entry, and the entry stayed
C13_Witness ==
    /\ Returned
    /\ lastCall.created
    /\ DOMAIN fontsByType_[lastCall.type] = Scales

-----------------------------------------------------------------------------
(* The static table of the chat styles.                                    *)

\* C14: every ChatMediumBold font that createFontData resolves has the weight getBoldness
\* yields from boldScale as it is at that resolution, whatever the static table held from
\* earlier resolutions; every other chat style resolves to QFont::Normal, and
\* ChatMediumItalic alone resolves to italic.  The rows of the other chat styles in the
\* static table never change.
C14_BoldWeightIsRecomputed ==
    /\ ResolvedChat =>
         /\ lastCall.font.weight =
              IF lastCall.type = ChatMediumBold THEN getBoldness ELSE QFont_Normal
         /\ lastCall.font.italic = (lastCall.type = ChatMediumItalic)
    /\ sizeScale.constructed =>
         \A t \in ChatStyles \ {ChatMediumBold} : sizeScale.table[t] = sizeScaleInitializer[t]

\* ChatMediumBold is resolved anew as Black after a change of boldScale that found a
\* ChatMediumBold entry of an earlier resolution cached
C14_Witness ==
    /\ ResolvedChat
    /\ lastCall.type = ChatMediumBold
    /\ lastCall.recached
    /\ boldScale = 100
    /\ lastCall.font.weight = QFont_Black

-----------------------------------------------------------------------------
(* Subscribing.                                                            *)

\* the step is the call of initialize
InitializeStep == ~connected /\ connected'

\* C15: the call of initialize runs no handler: it clears no bucket, broadcasts nothing and
\* does not bump the generation, and entries cached before it are cached after it.  Before
\* initialize no handler runs; a handler starts only in a later step, at a change of a
\* setting, and entries leave the cache only inside a handler.
C15_SubscribingNeverFires ==
    /\ [](~connected =>
            pc \notin {"handler", "subscribers"} /\ handler = "none" /\ trace = << >>
            /\ dropped = {})
    /\ [][InitializeStep =>
            /\ UNCHANGED <<fontsByType_, sizeScale, pc, handler, trace, dropped>>
            /\ UNCHANGED <<chatFontFamily, chatFontSize, boldScale>>]_vars
    /\ [][handler' # handler /\ handler' # "none" =>
            connected /\ pc = "idle" /\ pc' = "handler" /\ trace' = << >>]_vars
    /\ [][CachedPairs \ CachedPairs' # {} => connected /\ handler # "none"]_vars

\* initialize has just returned, and the two entries cached before it are cached
C15_Witness ==
    /\ lastCall.op = "initialize"
    /\ connected
    /\ pc = "idle"
    /\ Cardinality(CachedPairs) = 2
    /\ Coherent

-----------------------------------------------------------------------------
(* Coherence.                                                              *)

\* C16: between operations, that is whenever no handler is between its entry and its
\* broadcast, every cached entry has the family, size, weight and italic, and the metrics,
\* that createFontData yields for its pair from the settings as they are now; in
\* particular no entry resolved from an older value is cached once a handler has returned.
C16_CacheIsCoherentBetweenOperations ==
    pc \in {"idle", "subscribers"} => Coherent

\* no setting has its default value, the handler of the last change has returned, and a
\* chat pair that the change found cached is cached again
C16_Witness ==
    /\ pc = "idle"
    /\ connected
    /\ handler = "none"
    /\ chatFontFamily = "Comic Sans MS"
    /\ chatFontSize = 14
    /\ boldScale = 50
    /\ lastCall.recached
    /\ CachedPairs = {<<ChatMediumBold, lastCall.scale>>}
    /\ LastEntry.font.size >= 14

-----------------------------------------------------------------------------
(* The Ui styles and the settings.                                         *)

\* the font of a Ui style as a function of the platform, the style and the scale alone
UiReferenceFont(type, scale) ==
    QFont(UiFamily(type),
          TruncatedProduct(IF type = Tiny THEN 8 ELSE IF platform = "macos" THEN 7 ELSE 9,
                           Float_1, scale),
          IF type = UiMediumBold THEN QFont_Bold ELSE QFont_Normal,
          FALSE)

\* C17: whatever values the three settings have and have had, the font getFont returns for
\* a Ui style, and every entry cached for a Ui style, is one fixed function of the
\* platform, the style and the scale.  Two runs that differ in the settings alone thus get
\* equal Ui fonts, and the entry created after an invalidation equals the one discarded.
C17_UiFontsIgnoreSettings ==
    /\ \A t \in UiStyles : \A x \in DOMAIN fontsByType_[t] :
         fontsByType_[t][x] = FontData(UiReferenceFont(t, x))
    /\ Returned /\ lastCall.type \in UiStyles /\ lastCall.op = "getFont" =>
         lastCall.font = UiReferenceFont(lastCall.type, lastCall.scale)

\* with no setting at its default, UiMediumBold is resolved anew for a pair that the last
\* change discarded
C17_Witness ==
    /\ Returned
    /\ lastCall.type = UiMediumBold
    /\ lastCall.created
    /\ lastCall.recached
    /\ chatFontFamily = "Comic Sans MS"
    /\ chatFontSize = 14
    /\ boldScale = 50
    /\ lastCall.font = UiReferenceFont(UiMediumBold, lastCall.scale)

=============================================================================
